---- MODULE Spec2Model ----
(***************************************************************************)
(* Dao-Ke-Dao message model: the three message variants (Instant, Secure,  *)
(* Reliable) as objects over a heap of backing maps, and the transforming  *)
(* operations Encrypt, Decrypt, Sign, Verify, Split and Trim.              *)
(*                                                                         *)
(* A backing map is a function from field names to values; an object is a  *)
(* variant tag plus the heap reference of the map it wraps, so that        *)
(* "clone" and "wrap the same map" are different things.                   *)
(***************************************************************************)
EXTENDS Integers, Sequences, FiniteSets, TLC

\* Longest member list handed to Encrypt and Split.
MaxMembers == 2

-----------------------------------------------------------------------------
(* Optional values: nil is the empty sequence, a value x is <<x>>.         *)

Nil == <<>>

Some(x) == <<x>>

-----------------------------------------------------------------------------
(* Identifiers.  A map holds an ID either in its string form or as the ID  *)
(* object itself; IDParse accepts both.                                    *)

Senders == {"A"}

Receivers == {"B", "G"}

Members == {"B", "C"}

Passwords == {"pw1"}

\* What the delegate's key cache may hold for a conversation: the key in
\* use, or a stale one.
CachedPasswords == Passwords \cup {"pw0"}

Str(id) == [id |-> id, obj |-> FALSE]

Obj(id) == [id |-> id, obj |-> TRUE]

IDParse(v) == v.id

-----------------------------------------------------------------------------
(* Backing maps.                                                           *)

EmptyMap == [k \in {} |-> 0]

Has(m, k) == k \in DOMAIN m

Put(m, k, v) == [x \in (DOMAIN m) \cup {k} |-> IF x = k THEN v ELSE m[x]]

Del(m, k) == [x \in (DOMAIN m) \ {k} |-> m[x]]

\* GetMap handing out the wrapped map whatever clone says.
GetMapShared(h, ref, clone) == [heap |-> h, ref |-> ref]

\* Dictionary.GetMap(clone): the wrapped map itself, or a fresh shallow copy
\* allocated at the end of the heap.
GetMap(h, ref, clone) ==
    IF clone THEN [heap |-> Append(h, h[ref]), ref |-> Len(h) + 1]
    ELSE [heap |-> h, ref |-> ref]

\* CloneMap(info): a fresh shallow copy of a map.
CloneMap(h, ref) == [heap |-> Append(h, h[ref]), ref |-> Len(h) + 1]

HeapPut(h, ref, k, v) == [h EXCEPT ![ref] = Put(@, k, v)]

HeapDel(h, ref, k) == [h EXCEPT ![ref] = Del(@, k)]

-----------------------------------------------------------------------------
(* Envelope accessors over a backing map.                                  *)

EnvelopeGetSender(m) == IF Has(m, "sender") THEN Some(IDParse(m["sender"])) ELSE Nil

EnvelopeGetReceiver(m) == IF Has(m, "receiver") THEN Some(IDParse(m["receiver"])) ELSE Nil

EnvelopeGetGroup(m) == IF Has(m, "group") THEN Some(IDParse(m["group"])) ELSE Nil

EnvelopeGetTime(m) == IF Has(m, "time") THEN Some(m["time"]) ELSE Nil

-----------------------------------------------------------------------------
(* The delegate.  Cryptography is symbolic: a ciphertext names the key it  *)
(* was made with and the plaintext it holds; an encoded string wraps the   *)
(* bytes it encodes and decodes to them, and an undecodable string decodes *)
(* to nil.  The record d is what the delegate does in one call of an       *)
(* operation (which keys it holds, which step yields nothing or raises).   *)

Encode(bytes) == [b64 |-> Some(bytes)]

Garbage == [b64 |-> Nil]

Decode(str) == str.b64

SerializeContent(content, password) == [ser |-> content]

EncryptContent(data, password) == [pw |-> password, plain |-> data]

EncodeData(data) == Encode(data)

SerializeKey(password, d) == IF d.noKey THEN Nil ELSE Some([ser |-> password])

EncryptKey(key, receiver, d) ==
    IF receiver \in d.pks THEN Some([to |-> receiver, key |-> key]) ELSE Nil

EncodeKey(data) == Encode(data)

DecodeKey(str) == Decode(str)

\* The bytes an empty string decodes to (Go's zero value of a missing
\* map[string]string entry is the empty string).
EmptyBytes == [to |-> "", key |-> [ser |-> ""]]

EmptyStr == Encode(EmptyBytes)

DecryptKey(key, sender, receiver, d) ==
    IF d.keyOK /\ key # EmptyBytes THEN Some(key.key) ELSE Nil

DeserializeKey(key, sender, receiver, d) ==
    IF key = Nil THEN d.cached ELSE Some(key[1].ser)

DecodeData(str) == Decode(str)

DecryptContent(data, password, d) ==
    IF d.decOK /\ data.pw = password THEN Some(data.plain) ELSE Nil

ForgedContent == [type |-> 1, sn |-> 666, text |-> "forged"]

DeserializeContent(data, password, d) ==
    IF ~d.parseOK THEN Nil
    ELSE IF d.forge THEN Some(ForgedContent)
    ELSE Some(data.ser)

SignData(data, sender) == [by |-> sender, over |-> data]

EncodeSignature(signature) == Encode(signature)

DecodeSignature(str) == Decode(str)

VerifyDataSignature(data, signature, sender, d) ==
    /\ d.verify = "honest"
    /\ signature = [by |-> sender, over |-> Some(data)]

-----------------------------------------------------------------------------
(* Objects and results of operations.                                      *)

NewObject(kind, ref) == [kind |-> kind, ref |-> ref]

NoObject == [kind |-> "none", ref |-> 0]

\* A raised failure (Go panic): nothing is returned.
Raised(h) == [heap |-> h, outcome |-> "panic", outs |-> <<>>]

\* A nil result.
Nothing(h) == [heap |-> h, outcome |-> "nil", outs |-> <<>>]

Returned(h, objs) == [heap |-> h, outcome |-> "ok", outs |-> objs]

\* What a factory method returning an optional object gives its caller.
ReturnParsed(h, parsed) == IF parsed = Nil THEN Nothing(h) ELSE Returned(h, parsed)

-----------------------------------------------------------------------------
(* Factories.                                                              *)

ParseInstantMessage(h, ref) ==
    IF ~Has(h[ref], "content") THEN Nil
    ELSE Some(NewObject("Instant", ref))

\* A secure factory that never looks for `signature`.
ParseSecureMessagePlain(h, ref) == Some(NewObject("Secure", ref))

ParseSecureMessage(h, ref) ==
    IF Has(h[ref], "signature") THEN Some(NewObject("Reliable", ref))
    ELSE Some(NewObject("Secure", ref))

ParseReliableMessage(h, ref) ==
    IF ~Has(h[ref], "sender") \/ ~Has(h[ref], "data") \/ ~Has(h[ref], "signature")
    THEN Nil
    ELSE Some(NewObject("Reliable", ref))

InstantMessageParse(h, ref) == ParseInstantMessage(h, ref)

SecureMessageParse(h, ref) == ParseSecureMessage(h, ref)

ReliableMessageParse(h, ref) == ParseReliableMessage(h, ref)

\* The dispatcher looking for `signature` first, then `data`, then
\* `content`.
CreateMessageSignatureFirst(h, ref) ==
    IF Has(h[ref], "signature") THEN NewObject("Reliable", ref)
    ELSE IF Has(h[ref], "data") THEN NewObject("Secure", ref)
    ELSE IF Has(h[ref], "content") THEN NewObject("Instant", ref)
    ELSE NewObject("Message", ref)

\* The general dispatcher over a raw dictionary.
CreateMessage(h, ref) ==
    IF Has(h[ref], "content") THEN NewObject("Instant", ref)
    ELSE IF Has(h[ref], "signature") THEN NewObject("Reliable", ref)
    ELSE IF Has(h[ref], "data") THEN NewObject("Secure", ref)
    ELSE NewObject("Message", ref)

-----------------------------------------------------------------------------
(* Secure message accessors.                                               *)

EncryptedData(m) == IF Has(m, "data") THEN DecodeData(m["data"]) ELSE Nil

EncryptedKeys(m) == IF Has(m, "keys") THEN Some(m["keys"]) ELSE Nil

\* A lookup answering with the entry of some member when id has none.
KeysEntryOfAnyMember(keys, id) ==
    IF id \in DOMAIN keys THEN keys[id]
    ELSE IF DOMAIN keys # {} THEN keys[CHOOSE x \in DOMAIN keys : TRUE]
    ELSE EmptyStr

\* keys[id] of a Go map[string]string: the empty string when id is no key.
KeysEntry(keys, id) == IF id \in DOMAIN keys THEN keys[id] ELSE EmptyStr

\* The accessor looking into `keys` before `key`.
EncryptedKeyPrefersKeys(m) ==
    IF /\ EncryptedKeys(m) # Nil /\ EnvelopeGetReceiver(m) # Nil
       /\ EnvelopeGetReceiver(m)[1] \in DOMAIN EncryptedKeys(m)[1]
    THEN DecodeKey(EncryptedKeys(m)[1][EnvelopeGetReceiver(m)[1]])
    ELSE IF Has(m, "key") THEN DecodeKey(m["key"])
    ELSE Nil

EncryptedKey(m) ==
    IF Has(m, "key") THEN DecodeKey(m["key"])
    ELSE IF EncryptedKeys(m) # Nil /\ EnvelopeGetReceiver(m) # Nil
         THEN DecodeKey(KeysEntry(EncryptedKeys(m)[1], EnvelopeGetReceiver(m)[1]))
    ELSE Nil

Signature(m) == IF Has(m, "signature") THEN DecodeSignature(m["signature"]) ELSE Nil

-----------------------------------------------------------------------------
(* Instant message: Encrypt.                                               *)

\* An optional member list: nil, or a (possibly empty) list.
NoMembers == [nil |-> TRUE, list |-> <<>>]

MemberList(list) == [nil |-> FALSE, list |-> list]

\* The loop giving up at the first member whose key cannot be encrypted.
RECURSIVE EncryptKeysUntilMissing(_, _, _, _, _)
EncryptKeysUntilMissing(key, list, i, acc, d) ==
    IF i > Len(list) THEN acc
    ELSE LET data == EncryptKey(key, list[i], d)
         IN IF data = Nil THEN acc
            ELSE EncryptKeysUntilMissing(key, list, i + 1,
                             [keys |-> Put(acc.keys, list[i], EncodeKey(data[1])),
                              count |-> acc.count + 1], d)

\* The loop over the members of a group message: keys[member] for every
\* member whose key the delegate can encrypt, and the number of hits.
RECURSIVE EncryptKeys(_, _, _, _, _)
EncryptKeys(key, list, i, acc, d) ==
    IF i > Len(list) THEN acc
    ELSE LET data == EncryptKey(key, list[i], d)
         IN IF data = Nil THEN EncryptKeys(key, list, i + 1, acc, d)
            ELSE EncryptKeys(key, list, i + 1,
                             [keys |-> Put(acc.keys, list[i], EncodeKey(data[1])),
                              count |-> acc.count + 1], d)

\* Step 1 of Encrypt leaving `content` in the copy.
EncryptPackKeepsContent(h, ref, base64) ==
    LET info == GetMap(h, ref, TRUE)
    IN  [heap |-> HeapPut(info.heap, info.ref, "data", base64), ref |-> info.ref]

\* Step 1 of Encrypt: a copy of the message's map in which `data` replaces
\* `content`.
EncryptPack(h, ref, base64) ==
    LET info == GetMap(h, ref, TRUE)
        h1   == HeapDel(info.heap, info.ref, "content")
    IN  [heap |-> HeapPut(h1, info.ref, "data", base64), ref |-> info.ref]

\* The personal branch going on without a key, as the group branch does for
\* a member whose public key is missing.
EncryptPersonalSkipsKey(h, ref, info, key, d) ==
    LET receiver == EnvelopeGetReceiver(h[ref])
        ekey     == IF receiver = Nil THEN Nil
                    ELSE EncryptKey(key, receiver[1], d)
        h3       == IF ekey = Nil THEN h
                    ELSE HeapPut(h, info, "key", EncodeKey(ekey[1]))
    IN  ReturnParsed(h3, SecureMessageParse(h3, info))

\* The personal branch: the key encrypted for the receiver is stored as
\* `key`; when the delegate has no public key of the receiver, nil is
\* returned.
EncryptPersonal(h, ref, info, key, d) ==
    LET receiver == EnvelopeGetReceiver(h[ref])
        ekey     == IF receiver = Nil THEN Nil
                    ELSE EncryptKey(key, receiver[1], d)
    IN  IF ekey = Nil THEN Nothing(h)
        ELSE LET h3 == HeapPut(h, info, "key", EncodeKey(ekey[1]))
             IN  ReturnParsed(h3, SecureMessageParse(h3, info))

\* The group branch storing `keys` whatever the number of encrypted keys.
EncryptGroupAlwaysKeys(h, info, key, list, d) ==
    LET r  == EncryptKeys(key, list, 1, [keys |-> EmptyMap, count |-> 0], d)
        h3 == HeapPut(h, info, "keys", r.keys)
    IN  ReturnParsed(h3, SecureMessageParse(h3, info))

\* The group branch storing `keys` when there is at least one member.
EncryptGroupCountsMembers(h, info, key, list, d) ==
    LET r  == EncryptKeys(key, list, 1, [keys |-> EmptyMap, count |-> 0], d)
        h3 == IF Len(list) > 0 THEN HeapPut(h, info, "keys", r.keys) ELSE h
    IN  ReturnParsed(h3, SecureMessageParse(h3, info))

\* The group branch: `keys` is stored when at least one member's key was
\* encrypted.
EncryptGroup(h, info, key, list, d) ==
    LET r  == EncryptKeys(key, list, 1, [keys |-> EmptyMap, count |-> 0], d)
        h3 == IF r.count > 0 THEN HeapPut(h, info, "keys", r.keys) ELSE h
    IN  ReturnParsed(h3, SecureMessageParse(h3, info))

Encrypt(h, ref, password, members, d) ==
    IF d.raise = "content" \/ ~Has(h[ref], "content") THEN Raised(h)
    ELSE
    LET content == h[ref]["content"]
        data    == EncryptContent(SerializeContent(content, password), password)
        base64  == EncodeData(data)
        info    == EncryptPack(h, ref, base64)
        key     == SerializeKey(password, d)
    IN  IF d.raise = "key" THEN Raised(info.heap)
        ELSE IF key = Nil
             THEN ReturnParsed(info.heap, SecureMessageParse(info.heap, info.ref))
        ELSE IF members.nil
             THEN EncryptPersonal(info.heap, ref, info.ref, key[1], d)
        ELSE EncryptGroup(info.heap, info.ref, key[1], members.list, d)

-----------------------------------------------------------------------------
(* Secure message: Decrypt, Sign, Split, Trim.                             *)

\* Step 3 of Decrypt leaving `key` in the copy.
DecryptPackKeepsKey(h, ref, content) ==
    LET info == GetMap(h, ref, TRUE)
        h2   == HeapDel(info.heap, info.ref, "keys")
        h3   == HeapDel(h2, info.ref, "data")
        h4   == HeapPut(h3, info.ref, "content", content)
    IN  ReturnParsed(h4, InstantMessageParse(h4, info.ref))

\* Step 3 of Decrypt: a copy of the message's map in which `content`
\* replaces `key`, `keys` and `data`.
DecryptPack(h, ref, content) ==
    LET info == GetMap(h, ref, TRUE)
        h1   == HeapDel(info.heap, info.ref, "key")
        h2   == HeapDel(h1, info.ref, "keys")
        h3   == HeapDel(h2, info.ref, "data")
        h4   == HeapPut(h3, info.ref, "content", content)
    IN  ReturnParsed(h4, InstantMessageParse(h4, info.ref))

\* A call of a delegate method with its arguments.
Invoke(fn, args) == [fn |-> fn, args |-> args]

\* A raised failure of an operation, with the delegate calls made before it.
Failed(h, failure, log) == [failure |-> failure, log |-> log] @@ Raised(h)

\* The result of an operation with the delegate calls it made.
Logged(res, log) == [failure |-> "none", log |-> log] @@ res

\* Decrypt handing the envelope's receiver to the delegate although the
\* message has a group.
DecryptForReceiver(h, ref, d) ==
    LET msg      == h[ref]
        sender   == EnvelopeGetSender(msg)
        receiver == EnvelopeGetReceiver(msg)
        key0     == EncryptedKey(msg)
        key      == IF key0 # Nil THEN DecryptKey(key0[1], sender, receiver, d)
                    ELSE Nil
        log1     == IF key0 # Nil
                    THEN <<Invoke("DecryptKey", <<key0, sender, receiver>>)>>
                    ELSE <<>>
        log2     == Append(log1, Invoke("DeserializeKey", <<key, sender, receiver>>))
    IN  IF d.raise THEN Failed(h, "delegate", <<>>)
        ELSE IF key0 # Nil /\ key = Nil THEN Failed(h, "KeyDecryptFailed", log1)
        ELSE LET password == DeserializeKey(key, sender, receiver, d)
                 data0    == EncryptedData(msg)
             IN  IF password = Nil THEN Failed(h, "MissingSessionKey", log2)
                 ELSE IF data0 = Nil THEN Failed(h, "MissingData", log2)
                 ELSE LET data == DecryptContent(data0[1], password[1], d)
                          log3 == Append(log2, Invoke("DecryptContent", <<data0, password>>))
                      IN  IF data = Nil THEN Failed(h, "ContentDecryptFailed", log3)
                          ELSE LET content == DeserializeContent(data[1], password[1], d)
                                   log4    == Append(log3, Invoke("DeserializeContent",
                                                                 <<data, password>>))
                               IN  IF content = Nil
                                   THEN Failed(h, "ContentParseFailed", log4)
                                   ELSE Logged(DecryptPack(h, ref, content[1]), log4)

\* A Decrypt that looks for the data before it asks for the key.
DecryptDataFirst(h, ref, d) ==
    LET msg      == h[ref]
        sender   == EnvelopeGetSender(msg)
        group    == EnvelopeGetGroup(msg)
        receiver == IF group = Nil THEN EnvelopeGetReceiver(msg) ELSE group
        key0     == EncryptedKey(msg)
        key      == IF key0 # Nil THEN DecryptKey(key0[1], sender, receiver, d)
                    ELSE Nil
        log1     == IF key0 # Nil
                    THEN <<Invoke("DecryptKey", <<key0, sender, receiver>>)>>
                    ELSE <<>>
        log2     == Append(log1, Invoke("DeserializeKey", <<key, sender, receiver>>))
        data0    == EncryptedData(msg)
    IN  IF d.raise THEN Failed(h, "delegate", <<>>)
        ELSE IF data0 = Nil THEN Failed(h, "MissingData", <<>>)
        ELSE IF key0 # Nil /\ key = Nil THEN Failed(h, "KeyDecryptFailed", log1)
        ELSE LET password == DeserializeKey(key, sender, receiver, d)
             IN  IF password = Nil THEN Failed(h, "MissingSessionKey", log2)
                 ELSE LET data == DecryptContent(data0[1], password[1], d)
                          log3 == Append(log2, Invoke("DecryptContent", <<data0, password>>))
                      IN  IF data = Nil THEN Failed(h, "ContentDecryptFailed", log3)
                          ELSE LET content == DeserializeContent(data[1], password[1], d)
                                   log4    == Append(log3, Invoke("DeserializeContent",
                                                                 <<data, password>>))
                               IN  IF content = Nil
                                   THEN Failed(h, "ContentParseFailed", log4)
                                   ELSE Logged(DecryptPack(h, ref, content[1]), log4)

Decrypt(h, ref, d) ==
    LET msg      == h[ref]
        sender   == EnvelopeGetSender(msg)
        group    == EnvelopeGetGroup(msg)
        receiver == IF group = Nil THEN EnvelopeGetReceiver(msg) ELSE group
        key0     == EncryptedKey(msg)
        key      == IF key0 # Nil THEN DecryptKey(key0[1], sender, receiver, d)
                    ELSE Nil
        log1     == IF key0 # Nil
                    THEN <<Invoke("DecryptKey", <<key0, sender, receiver>>)>>
                    ELSE <<>>
        log2     == Append(log1, Invoke("DeserializeKey", <<key, sender, receiver>>))
    IN  IF d.raise THEN Failed(h, "delegate", <<>>)
        ELSE IF key0 # Nil /\ key = Nil THEN Failed(h, "KeyDecryptFailed", log1)
        ELSE LET password == DeserializeKey(key, sender, receiver, d)
                 data0    == EncryptedData(msg)
             IN  IF password = Nil THEN Failed(h, "MissingSessionKey", log2)
                 ELSE IF data0 = Nil THEN Failed(h, "MissingData", log2)
                 ELSE LET data == DecryptContent(data0[1], password[1], d)
                          log3 == Append(log2, Invoke("DecryptContent", <<data0, password>>))
                      IN  IF data = Nil THEN Failed(h, "ContentDecryptFailed", log3)
                          ELSE LET content == DeserializeContent(data[1], password[1], d)
                                   log4    == Append(log3, Invoke("DeserializeContent",
                                                                 <<data, password>>))
                               IN  IF content = Nil
                                   THEN Failed(h, "ContentParseFailed", log4)
                                   ELSE Logged(DecryptPack(h, ref, content[1]), log4)

Sign(h, ref, d) ==
    LET msg    == h[ref]
        sender == EnvelopeGetSender(msg)
    IN  IF d.raise \/ ~Has(msg, "data") THEN Raised(h)
        ELSE
        LET data      == EncryptedData(msg)
            signature == SignData(data, sender)
            base64    == EncodeSignature(signature)
            info      == GetMap(h, ref, TRUE)
            h1        == HeapPut(info.heap, info.ref, "signature", base64)
        IN  ReturnParsed(h1, ReliableMessageParse(h1, info.ref))

\* The loop of Split giving a member listed twice one message only.
RECURSIVE SplitLoopOncePerMember(_, _, _, _, _, _)
SplitLoopOncePerMember(h, info, keys, list, i, messages) ==
    IF i > Len(list) THEN Returned(h, messages)
    ELSE IF \E j \in 1..(i - 1) : list[j] = list[i]
         THEN SplitLoopOncePerMember(h, info, keys, list, i + 1, messages)
    ELSE LET member == list[i]
             h1     == HeapPut(h, info, "receiver", Obj(member))
             base64 == KeysEntry(keys, member)
             h2     == IF base64 = EmptyStr THEN HeapDel(h1, info, "key")
                       ELSE HeapPut(h1, info, "key", base64)
             clone  == CloneMap(h2, info)
             sMsg   == SecureMessageParse(clone.heap, clone.ref)
         IN  SplitLoopOncePerMember(clone.heap, info, keys, list, i + 1,
                                    IF sMsg = Nil THEN messages ELSE messages \o sMsg)

\* The loop of Split leaving `key` in the working map when `keys` has no
\* entry for the member.
RECURSIVE SplitLoopKeepsKey(_, _, _, _, _, _)
SplitLoopKeepsKey(h, info, keys, list, i, messages) ==
    IF i > Len(list) THEN Returned(h, messages)
    ELSE LET member == list[i]
             h1     == HeapPut(h, info, "receiver", Obj(member))
             base64 == KeysEntry(keys, member)
             h2     == IF base64 = EmptyStr THEN h1
                       ELSE HeapPut(h1, info, "key", base64)
             clone  == CloneMap(h2, info)
             sMsg   == SecureMessageParse(clone.heap, clone.ref)
         IN  SplitLoopKeepsKey(clone.heap, info, keys, list, i + 1,
                               IF sMsg = Nil THEN messages ELSE messages \o sMsg)

\* The loop of Split over the members, on the working map info: every
\* round rewrites info and parses a clone of it.
RECURSIVE SplitLoop(_, _, _, _, _, _)
SplitLoop(h, info, keys, list, i, messages) ==
    IF i > Len(list) THEN Returned(h, messages)
    ELSE LET member == list[i]
             h1     == HeapPut(h, info, "receiver", Obj(member))
             base64 == KeysEntry(keys, member)
             h2     == IF base64 = EmptyStr THEN HeapDel(h1, info, "key")
                       ELSE HeapPut(h1, info, "key", base64)
             clone  == CloneMap(h2, info)
             sMsg   == SecureMessageParse(clone.heap, clone.ref)
         IN  SplitLoop(clone.heap, info, keys, list, i + 1,
                       IF sMsg = Nil THEN messages ELSE messages \o sMsg)

Split(h, ref, list) ==
    LET msg  == h[ref]
        info == GetMap(h, ref, TRUE)
        keys == EncryptedKeys(msg)
        h1   == IF keys = Nil THEN info.heap ELSE HeapDel(info.heap, info.ref, "keys")
    IN  IF EnvelopeGetReceiver(msg) = Nil THEN Raised(h1)
        ELSE LET h2 == HeapPut(h1, info.ref, "group", Obj(EnvelopeGetReceiver(msg)[1]))
             IN  SplitLoop(h2, info.ref, IF keys = Nil THEN EmptyMap ELSE keys[1],
                           list, 1, <<>>)

\* Trim treating `key` the way the loop of Split does: removed when `keys`
\* has no entry for the member.
TrimLikeSplit(h, ref, member) ==
    LET msg    == h[ref]
        info   == GetMap(h, ref, TRUE)
        keys   == EncryptedKeys(msg)
        base64 == IF keys = Nil THEN EmptyStr ELSE KeysEntry(keys[1], member)
        h0     == IF base64 # EmptyStr
                  THEN HeapPut(info.heap, info.ref, "key", base64)
                  ELSE HeapDel(info.heap, info.ref, "key")
        h1     == HeapDel(h0, info.ref, "keys")
        group  == EnvelopeGetGroup(msg)
    IN  IF group = Nil /\ EnvelopeGetReceiver(msg) = Nil THEN Raised(h1)
        ELSE LET h2 == IF group = Nil
                       THEN HeapPut(h1, info.ref, "group", Obj(EnvelopeGetReceiver(msg)[1]))
                       ELSE h1
                 h3 == HeapPut(h2, info.ref, "receiver", Obj(member))
             IN  ReturnParsed(h3, SecureMessageParse(h3, info.ref))

Trim(h, ref, member) ==
    LET msg  == h[ref]
        info == GetMap(h, ref, TRUE)
        keys == EncryptedKeys(msg)
        h1   == IF keys = Nil THEN info.heap
                ELSE LET base64 == KeysEntry(keys[1], member)
                         h0 == IF base64 # EmptyStr
                               THEN HeapPut(info.heap, info.ref, "key", base64)
                               ELSE info.heap
                     IN  HeapDel(h0, info.ref, "keys")
        group == EnvelopeGetGroup(msg)
    IN  IF group = Nil /\ EnvelopeGetReceiver(msg) = Nil THEN Raised(h1)
        ELSE LET h2 == IF group = Nil
                       THEN HeapPut(h1, info.ref, "group", Obj(EnvelopeGetReceiver(msg)[1]))
                       ELSE h1
                 h3 == HeapPut(h2, info.ref, "receiver", Obj(member))
             IN  ReturnParsed(h3, SecureMessageParse(h3, info.ref))

-----------------------------------------------------------------------------
(* Reliable message: Verify.                                               *)

\* Step 2 of Verify leaving `signature` in the copy.
VerifyPackKeepsSignature(h, ref) ==
    LET info == GetMap(h, ref, TRUE)
    IN  ReturnParsed(info.heap, SecureMessageParse(info.heap, info.ref))

\* Step 2 of Verify: a copy of the message's map without `signature`.
VerifyPack(h, ref) ==
    LET info == GetMap(h, ref, TRUE)
        h1   == HeapDel(info.heap, info.ref, "signature")
    IN  ReturnParsed(h1, SecureMessageParse(h1, info.ref))

\* Verify raising on a signature that does not match.
VerifyRaisesOnMismatch(h, ref, d) ==
    LET msg       == h[ref]
        data      == EncryptedData(msg)
        signature == Signature(msg)
        sender    == EnvelopeGetSender(msg)
        log       == <<Invoke("VerifyDataSignature", <<data, signature, sender>>)>>
    IN  IF d.verify = "raise" THEN Failed(h, "delegate", <<>>)
        ELSE IF data = Nil THEN Failed(h, "MissingData", <<>>)
        ELSE IF signature = Nil THEN Failed(h, "MissingSignature", <<>>)
        ELSE IF VerifyDataSignature(data[1], signature[1], sender, d)
             THEN Logged(VerifyPack(h, ref), log)
             ELSE Failed(h, "SignatureMismatch", log)

\* Verify looking for the signature before the data.
VerifySignatureFirst(h, ref, d) ==
    LET msg       == h[ref]
        data      == EncryptedData(msg)
        signature == Signature(msg)
        sender    == EnvelopeGetSender(msg)
        log       == <<Invoke("VerifyDataSignature", <<data, signature, sender>>)>>
    IN  IF d.verify = "raise" THEN Failed(h, "delegate", <<>>)
        ELSE IF signature = Nil THEN Failed(h, "MissingSignature", <<>>)
        ELSE IF data = Nil THEN Failed(h, "MissingData", <<>>)
        ELSE IF VerifyDataSignature(data[1], signature[1], sender, d)
             THEN Logged(VerifyPack(h, ref), log)
             ELSE Logged(Nothing(h), log)

Verify(h, ref, d) ==
    LET msg       == h[ref]
        data      == EncryptedData(msg)
        signature == Signature(msg)
        sender    == EnvelopeGetSender(msg)
        log       == <<Invoke("VerifyDataSignature", <<data, signature, sender>>)>>
    IN  IF d.verify = "raise" THEN Failed(h, "delegate", <<>>)
        ELSE IF data = Nil THEN Failed(h, "MissingData", <<>>)
        ELSE IF signature = Nil THEN Failed(h, "MissingSignature", <<>>)
        ELSE IF VerifyDataSignature(data[1], signature[1], sender, d)
             THEN Logged(VerifyPack(h, ref), log)
             ELSE Logged(Nothing(h), log)

-----------------------------------------------------------------------------
(* Construction.                                                           *)

\* The time an envelope is created with, and the time a content carries.
Times == [envelope |-> 100, content |-> 200]

\* A content carrying its own time, and one without.
Contents ==
    { [type |-> 1, sn |-> 412968873, time |-> Times.content, text |-> "Hey guy!"],
      [type |-> 1, sn |-> 412968873, text |-> "Hey guy!"],
      [type |-> 2, sn |-> 412968873, group |-> Str("H"), text |-> "Hey guys!"] }

\* NewEnvelope(nil, from, to, when): a fresh map with the three fields.
NewEnvelope(from, to, when) ==
    [sender |-> Str(from), receiver |-> Str(to), time |-> when]

\* NewInstantMessage(nil, head, body): the message wraps the map of the
\* envelope, with the content stored in it.
NewInstantMessage(h, head, body) ==
    LET dict == GetMap(h, head, FALSE)
        h1   == HeapPut(dict.heap, dict.ref, "content", body)
    IN  Returned(h1, <<NewObject("Instant", dict.ref)>>)

\* Accessors of a content over its map.
ContentGetType(content) == IF Has(content, "type") THEN content["type"] ELSE 0

ContentGetTime(content) == IF Has(content, "time") THEN Some(content["time"]) ELSE Nil

ContentGetGroup(content) == IF Has(content, "group") THEN Some(IDParse(content["group"])) ELSE Nil

\* Accessors of an instant message over its map.
InstantMessageGetContent(m) == m["content"]

\* An accessor preferring the envelope's time.
PlainMessageTimeOfEnvelope(m) ==
    LET msgTime == EnvelopeGetTime(m)
    IN  IF msgTime = Nil THEN ContentGetTime(InstantMessageGetContent(m)) ELSE msgTime

PlainMessageTime(m) ==
    LET msgTime == ContentGetTime(InstantMessageGetContent(m))
    IN  IF msgTime = Nil THEN EnvelopeGetTime(m) ELSE msgTime

PlainMessageGroup(m) == ContentGetGroup(InstantMessageGetContent(m))

PlainMessageType(m) == ContentGetType(InstantMessageGetContent(m))

\* Raw dictionaries as they arrive from outside: the envelope fields plus
\* any combination of the body fields.
RawFields == {"content", "data", "signature", "key", "keys", "group"}

RawData == EncryptContent(SerializeContent(CHOOSE c \in Contents : Has(c, "time"), "pw1"), "pw1")

RawValue(k) ==
    CASE k = "content"   -> CHOOSE c \in Contents : Has(c, "time")
      [] k = "data"      -> EncodeData(RawData)
      [] k = "signature" -> EncodeSignature(SignData(Some(RawData), Some("A")))
      [] k = "key"       -> EncodeKey([to |-> "G", key |-> [ser |-> "pw1"]])
      [] k = "keys"      -> ("C" :> EncodeKey([to |-> "C", key |-> [ser |-> "pw1"]]))
      [] k = "group"     -> Str("H")

RawMap(S) ==
    [k \in {"sender", "receiver", "time"} \cup S |->
        CASE k = "sender"   -> Str("A")
          [] k = "receiver" -> Str("G")
          [] k = "time"     -> Times.envelope
          [] OTHER          -> RawValue(k)]

\* A `keys` map with an entry for the receiver of the raw dictionaries, made
\* with another password than their `key`.
ReceiverKeys ==
    ("C" :> EncodeKey([to |-> "C", key |-> [ser |-> "pw1"]])) @@
    ("G" :> EncodeKey([to |-> "G", key |-> [ser |-> "pw2"]]))

\* Encrypted dictionaries whose `keys` has an entry for the receiver, with
\* and without a `key` next to it.
KeyedMaps ==
    { [RawMap({"data", "keys"} \cup S) EXCEPT !["keys"] = ReceiverKeys] :
        S \in SUBSET {"key"} }

\* Signed dictionaries whose `data` or `signature` is a string that does
\* not decode.
UndecodableMaps ==
    { [RawMap({"data", "signature"}) EXCEPT !["data"] = dv, !["signature"] = sv] :
        dv \in {RawValue("data"), Garbage}, sv \in {RawValue("signature"), Garbage} }

RawMaps ==
    {RawMap(S) : S \in SUBSET {"content", "data", "signature"}}
    \cup {RawMap({"data"} \cup S) : S \in SUBSET {"signature", "key", "keys", "group"}}
    \cup UndecodableMaps
    \cup KeyedMaps

-----------------------------------------------------------------------------
(* Inputs of the operations.                                               *)

Range(f) == {f[i] : i \in DOMAIN f}

MemberLists == UNION {[1..n -> Members] : n \in 0..MaxMembers}

MemberArgs == {NoMembers} \cup {MemberList(l) : l \in MemberLists}

NoDelegate == [none |-> TRUE]

\* The identifiers whose public key Encrypt asks the delegate for.
EncryptTargets(m, members) ==
    IF members.nil THEN Range(EnvelopeGetReceiver(m)) ELSE Range(members.list)

EncryptDelegates(m, members) ==
    { [raise |-> "content", noKey |-> FALSE, pks |-> {}],
      [raise |-> "key", noKey |-> FALSE, pks |-> {}],
      [raise |-> "no", noKey |-> TRUE, pks |-> {}] }
    \cup { [raise |-> "no", noKey |-> FALSE, pks |-> P] :
             P \in SUBSET EncryptTargets(m, members) }

HonestDecrypt == [raise |-> FALSE, keyOK |-> TRUE, cached |-> Nil,
                  decOK |-> TRUE, parseOK |-> TRUE, forge |-> FALSE]

\* What the delegate can do in one Decrypt of m: the private key matters
\* when a key is attached, the key cache when none is.
DecryptDelegates(m) ==
    { [HonestDecrypt EXCEPT !.keyOK = k, !.cached = c, !.decOK = x, !.parseOK = y] :
        k \in (IF EncryptedKey(m) # Nil THEN BOOLEAN ELSE {TRUE}),
        c \in (IF EncryptedKey(m) # Nil THEN {Nil}
               ELSE {Nil} \cup {Some(p) : p \in CachedPasswords}),
        x \in BOOLEAN, y \in BOOLEAN }
    \cup { [HonestDecrypt EXCEPT !.raise = TRUE],
           [HonestDecrypt EXCEPT !.forge = TRUE] }

SignDelegates == {[raise |-> b] : b \in BOOLEAN}

VerifyDelegates == {[verify |-> v] : v \in {"honest", "reject", "raise"}}

-----------------------------------------------------------------------------
(* State.                                                                  *)
(*   heap   the backing maps that are referenced: heap[1] is the map of    *)
(*          src, the rest are the maps of the objects in outs              *)
(*   src    the object the last operation was called on                    *)
(*   outs   the objects the last operation returned                        *)
(*   last   the last operation: its name, the map of src before the call,  *)
(*          its arguments, what the delegate did, and the outcome          *)
(*   prev   the operation that returned src                                *)
(*   stage  how far src..outs are along create, encrypt, sign, verify,     *)
(*          decrypt                                                        *)
(*   root   the map of the instant message the chain was created with      *)

VARIABLES heap, src, outs, last, prev, stage, root

\* The contents constructed from a type, the clock they read and the first
\* output of the random source for each seed.
VARIABLES clock, source, made

\* The factory registries, the phase of the program and the calls of the
\* worker threads.
VARIABLES registry, phase, lastop, calls

messageVars == <<heap, src, outs, last, prev, stage, root>>

contentVars == <<clock, source, made>>

registryVars == <<registry, phase, lastop, calls>>

vars == <<messageVars, contentVars, registryVars>>

\* No content is constructed.
ContentIdle ==
    /\ clock = 0
    /\ source = <<>>
    /\ made = <<>>

\* No registry is in use.
RegistryIdle ==
    /\ registry = <<>>
    /\ phase = "off"
    /\ lastop = [op |-> "none", kind |-> "none", before |-> "none"]
    /\ calls = <<>>

NoStep == [op |-> "none", pre |-> EmptyMap, personal |-> FALSE]

\* No message exists.
MessageIdle ==
    /\ heap = <<>>
    /\ src = NoObject
    /\ outs = <<>>
    /\ last = [op |-> "none", pre |-> EmptyMap, outcome |-> "none",
               args |-> NoDelegate, d |-> NoDelegate]
    /\ prev = NoStep
    /\ stage = "none"
    /\ root = EmptyMap

Init ==
    /\ MessageIdle
    /\ ContentIdle
    /\ RegistryIdle

\* The objects the next operation can be called on: what the last call
\* returned.
Callable == Range(outs)

\* The order in which a message is taken through the operations: a created
\* message is encrypted, then optionally signed, then optionally split or
\* trimmed (the sending side); the receiving side optionally verifies and
\* then decrypts, and a decrypted message may be encrypted once more to
\* forward it.  A parsed message enters this order at any operation.
Rank(op) ==
    CASE op \in {"create", "parse"} -> 0
      [] op = "encrypt"           -> 1
      [] op = "sign"              -> 2
      [] op \in {"split", "trim"}  -> 3
      [] op = "verify"            -> 4
      [] op = "decrypt"           -> 5
      [] OTHER                    -> 6

CanCall(op) ==
    \/ last.op = "parse"
    \/ last.op = "decrypt" /\ op = "encrypt"
    \/ /\ Rank(op) > Rank(last.op)
       /\ ~(last.op = "encrypt" /\ prev.op = "decrypt")

\* The references in use after a call on r, in heap order; r's map first.
Used(r, res) == {r.ref} \cup {res.outs[i].ref : i \in DOMAIN res.outs}

Renumber(r, res, x) == Cardinality({y \in Used(r, res) : y <= x})

Compact(r, res) ==
    [i \in 1..Cardinality(Used(r, res)) |->
        res.heap[CHOOSE x \in Used(r, res) : Renumber(r, res, x) = i]]

NextStage(op, res, args, d) ==
    IF res.outcome # "ok" THEN "off"
    ELSE IF stage = "created" /\ op = "encrypt" /\ args.members.nil /\ ~d.noKey
         THEN "encrypted"
    ELSE IF stage = "encrypted" /\ op = "sign" THEN "signed"
    ELSE IF stage = "signed" /\ op = "verify" THEN "verified"
    ELSE IF stage = "verified" /\ op = "decrypt" /\ ~d.forge THEN "decrypted"
    ELSE "off"

\* What is kept of the operation that returned the receiver of the next.
Brief(step) ==
    [op |-> step.op, pre |-> step.pre,
     personal |-> step.op = "encrypt" /\ step.args.members.nil]

\* The state after op was called on r with result res.
Done(op, r, res, args, d) ==
    /\ heap' = Compact(r, res)
    /\ src' = NewObject(r.kind, 1)
    /\ outs' = [i \in DOMAIN res.outs |->
                   NewObject(res.outs[i].kind, Renumber(r, res, res.outs[i].ref))]
    /\ last' = [op |-> op, pre |-> heap[r.ref], outcome |-> res.outcome,
                args |-> args, d |-> d]
    /\ prev' = Brief(last)
    /\ stage' = NextStage(op, res, args, d)
    /\ UNCHANGED <<root, contentVars, registryVars>>

Create ==
    /\ src = NoObject
    /\ \E from \in Senders, to \in Receivers, body \in Contents :
         LET env == NewEnvelope(from, to, Times.envelope)
             res == NewInstantMessage(<<env>>, 1, body)
         IN  /\ heap' = res.heap
             /\ src' = NewObject("Envelope", 1)
             /\ outs' = res.outs
             /\ last' = [op |-> "create", pre |-> env, outcome |-> res.outcome,
                         args |-> [content |-> body], d |-> NoDelegate]
             /\ prev' = NoStep
             /\ stage' = "created"
             /\ root' = res.heap[res.outs[1].ref]
             /\ UNCHANGED <<contentVars, registryVars>>

Parse ==
    /\ src = NoObject
    /\ \E raw \in RawMaps :
         /\ heap' = <<raw>>
         /\ src' = NewObject("Raw", 1)
         /\ outs' = <<CreateMessage(<<raw>>, 1)>>
         /\ last' = [op |-> "parse", pre |-> raw, outcome |-> "ok",
                     args |-> NoDelegate, d |-> NoDelegate]
         /\ prev' = NoStep
         /\ stage' = "off"
         /\ root' = EmptyMap
         /\ UNCHANGED <<contentVars, registryVars>>

DoEncrypt ==
    /\ CanCall("encrypt")
    /\ \E r \in Callable, password \in Passwords, members \in MemberArgs :
        /\ r.kind = "Instant"
        /\ \E d \in EncryptDelegates(heap[r.ref], members) :
             Done("encrypt", r, Encrypt(heap, r.ref, password, members, d),
                  [password |-> password, members |-> members], d)

DoDecrypt ==
    /\ CanCall("decrypt")
    /\ \E r \in Callable :
        /\ r.kind \in {"Secure", "Reliable"}
        /\ \E d \in DecryptDelegates(heap[r.ref]) :
             LET res == Decrypt(heap, r.ref, d)
             IN  Done("decrypt", r, res, [failure |-> res.failure, log |-> res.log], d)

DoSign ==
    /\ CanCall("sign")
    /\ \E r \in Callable, d \in SignDelegates :
        /\ r.kind \in {"Secure", "Reliable"}
        /\ Done("sign", r, Sign(heap, r.ref, d), NoDelegate, d)

DoVerify ==
    /\ CanCall("verify")
    /\ \E r \in Callable, d \in VerifyDelegates :
        /\ r.kind = "Reliable"
        /\ LET res == Verify(heap, r.ref, d)
           IN  Done("verify", r, res, [failure |-> res.failure, log |-> res.log], d)

DoSplit ==
    /\ CanCall("split")
    /\ \E r \in Callable, list \in MemberLists :
        /\ r.kind \in {"Secure", "Reliable"}
        /\ Done("split", r, Split(heap, r.ref, list), [members |-> list], NoDelegate)

DoTrim ==
    /\ CanCall("trim")
    /\ \E r \in Callable, member \in Members :
        /\ r.kind \in {"Secure", "Reliable"}
        /\ Done("trim", r, Trim(heap, r.ref, member), [member |-> member], NoDelegate)

-----------------------------------------------------------------------------
(* Factory methods of the protocol layer: parsing any value.               *)

ParseEnvelope(h, ref) ==
    IF ~Has(h[ref], "sender") THEN Nil
    ELSE Some(NewObject("Envelope", ref))

\* The instant message factory of the revision that wraps whatever
\* dictionary it is given.
ParsePlainMessage(h, ref) == Some(NewObject("Instant", ref))

FactoryRevisions == {"checked", "plain"}

Variants == {"Envelope", "Instant", "Secure", "Reliable"}

\* The type assertion of the parse wrappers: a ReliableMessage is a
\* SecureMessage too.
IsInstance(variant, kind) ==
    \/ kind = variant
    \/ variant = "Secure" /\ kind = "Reliable"

\* The registered factory of a variant parsing a dictionary.
FactoryParse(variant, h, ref, rev) ==
    CASE variant = "Envelope" -> ParseEnvelope(h, ref)
      [] variant = "Instant"  -> IF rev = "plain" THEN ParsePlainMessage(h, ref)
                                 ELSE InstantMessageParse(h, ref)
      [] variant = "Secure"   -> SecureMessageParse(h, ref)
      [] variant = "Reliable" -> ReliableMessageParse(h, ref)

\* A parse wrapper that hands every value to the factory, an object of the
\* requested variant included.
MessageParseRewraps(variant, h, arg, rev) ==
    IF arg.kind = "none" THEN [instance |-> "none"] @@ Nothing(h)
    ELSE [instance |-> "new"] @@ ReturnParsed(h, FactoryParse(variant, h, arg.ref, rev))

\* EnvelopeParse, InstantMessageParse, SecureMessageParse and
\* ReliableMessageParse called with nothing, with an object or with a
\* dictionary, the factories being registered. `instance` tells whether
\* the object returned is the argument itself or one the factory made.
MessageParse(variant, h, arg, rev) ==
    IF arg.kind = "none" THEN [instance |-> "none"] @@ Nothing(h)
    ELSE IF IsInstance(variant, arg.kind)
         THEN [instance |-> "same"] @@ Returned(h, <<arg>>)
    ELSE [instance |-> "new"] @@ ReturnParsed(h, FactoryParse(variant, h, arg.ref, rev))

\* Dictionaries from outside the factories are asked to parse: the raw
\* ones, with and without their sender.
ParseInputs == RawMaps \cup {Del(raw, "sender") : raw \in RawMaps}

\* The revisions of the factory of a variant.
RevisionsOf(variant) == IF variant = "Instant" THEN FactoryRevisions ELSE {"checked"}

\* A factory parse of nothing or of a dictionary from outside.
ParseRaw ==
    /\ src = NoObject
    /\ \E variant \in Variants, input \in {Nil} \cup {Some(raw) : raw \in ParseInputs} :
       \E rev \in RevisionsOf(variant) :
         LET h == IF input = Nil THEN <<>> ELSE <<input[1]>>
             arg == IF input = Nil THEN NoObject ELSE NewObject("Raw", 1)
             res == MessageParse(variant, h, arg, rev)
         IN  /\ heap' = res.heap
             /\ src' = arg
             /\ outs' = res.outs
             /\ last' = [op |-> "factory", pre |-> IF input = Nil THEN EmptyMap ELSE input[1],
                         outcome |-> res.outcome,
                         args |-> [variant |-> variant, form |-> IF input = Nil THEN "nothing" ELSE "map",
                                   rev |-> rev, instance |-> res.instance],
                         d |-> NoDelegate]
             /\ prev' = NoStep
             /\ stage' = "off"
             /\ root' = EmptyMap
             /\ UNCHANGED <<contentVars, registryVars>>

\* A second message is created from the envelope of the first, with
\* another content.
CreateSecond ==
    /\ last.op = "create"
    /\ \E body \in Contents \ {last.args.content} :
         LET res == NewInstantMessage(heap, src.ref, body)
         IN  /\ heap' = res.heap
             /\ outs' = outs \o res.outs
             /\ last' = [op |-> "create2", pre |-> heap[outs[1].ref], outcome |-> res.outcome,
                         args |-> [content |-> body], d |-> NoDelegate]
             /\ prev' = Brief(last)
             /\ stage' = "off"
             /\ UNCHANGED <<src, root, contentVars, registryVars>>

\* A message or envelope that create or a transformation returned is
\* parsed again by the factory of its own variant, as the object it is or
\* as its dictionary.
Reparse ==
    /\ root # EmptyMap
    /\ last.outcome = "ok"
    /\ last.op \in {"create", "encrypt", "sign", "verify", "decrypt", "split", "trim"}
    /\ \E x \in Callable \cup (IF last.op = "create" THEN {src} ELSE {}),
          form \in {"instance", "map"} :
       \E rev \in RevisionsOf(x.kind) :
         LET arg == IF form = "instance" THEN x ELSE NewObject("Raw", x.ref)
             res == MessageParse(x.kind, heap, arg, rev)
         IN  /\ heap' = res.heap
             /\ src' = x
             /\ outs' = res.outs
             /\ last' = [op |-> "reparse", pre |-> heap[x.ref], outcome |-> res.outcome,
                         args |-> [variant |-> x.kind, form |-> form, rev |-> rev,
                                   instance |-> res.instance],
                         d |-> NoDelegate]
             /\ prev' = Brief(last)
             /\ stage' = "off"
             /\ UNCHANGED <<root, contentVars, registryVars>>

Next ==
    \/ Create
    \/ Parse
    \/ CreateSecond
    \/ ParseRaw
    \/ Reparse
    \/ DoEncrypt
    \/ DoDecrypt
    \/ DoSign
    \/ DoVerify
    \/ DoSplit
    \/ DoTrim

Spec == Init /\ [][Next]_vars

TypeOK ==
    /\ src.kind \in {"none", "Envelope", "Raw", "Instant", "Secure", "Reliable", "Message"}
    /\ \A i \in DOMAIN outs : outs[i].ref \in DOMAIN heap

-----------------------------------------------------------------------------
(* Contents constructed from a type: the serial number.                    *)

MaxClock == 2

MaxContents == 2

\* The substitute for a zero draw.
Sentinel == 9527 + 9394

\* Values the random source yields, zero among them.
Draws == {0, 1, 2}

ContentTypes == {1, 2}

\* The revisions of the construction: the one seeding the source with the
\* time stamp, the one taking whatever the source yields, and the one
\* replacing a zero.
ContentRevisions == {"seeded", "random", "guarded"}

\* rand.Seed(stamp) followed by rand.Uint32(): the first output of the
\* source for that seed.
SeededSerialNumber(stamp, draw) == source[stamp]

\* The generator returning what the source yields.
RandomSerialNumber(msgType, now, draw) == draw

\* The generator replacing a zero.
GenerateSerialNumber(msgType, now, draw) ==
    LET sn == draw
    IN  IF sn = 0 THEN Sentinel ELSE sn

InstantMessageGenerateSerialNumber(rev, msgType, now, draw) ==
    CASE rev = "seeded"  -> SeededSerialNumber(now, draw)
      [] rev = "random"  -> RandomSerialNumber(msgType, now, draw)
      [] rev = "guarded" -> GenerateSerialNumber(msgType, now, draw)

\* BaseContent.InitWithType: the map of the new content.
InitWithType(rev, msgType, now, draw) ==
    LET sn == InstantMessageGenerateSerialNumber(rev, msgType, now, draw)
    IN  [type |-> msgType, sn |-> sn, time |-> now]

ContentInit ==
    /\ MessageIdle
    /\ RegistryIdle
    /\ clock = 1
    /\ source \in [1..MaxClock -> Draws]
    /\ made = <<>>

\* Time passes.
Tick ==
    /\ clock < MaxClock
    /\ clock' = clock + 1
    /\ UNCHANGED <<source, made, messageVars, registryVars>>

\* A content is constructed from a type, the random source yielding draw.
NewContent ==
    /\ Len(made) < MaxContents
    /\ \E rev \in ContentRevisions, msgType \in ContentTypes, draw \in Draws :
         made' = Append(made, [rev |-> rev, stamp |-> clock, draw |-> draw,
                               content |-> InitWithType(rev, msgType, clock, draw)])
    /\ UNCHANGED <<clock, source, messageVars, registryVars>>

ContentNext ==
    \/ Tick
    \/ NewContent

ContentSpec == ContentInit /\ [][ContentNext]_vars

-----------------------------------------------------------------------------
(* The factory registries: package variables read and written without     *)
(* synchronisation.  The package's init runs before anything else, then    *)
(* the program sets up on one thread, then the worker threads run.         *)

MaxThreads == 2

Threads == 1..MaxThreads

NoFactory == "none"

\* The content registry is a map from the content type to its factory; 0 is
\* the type of the fallback factory.
ContentKinds == {"Content:1", "Content:0"}

RegistryKinds == Variants \cup ContentKinds

\* The order in which init builds the factories.
InitOrder == <<"Envelope", "Instant", "Secure", "Reliable">>

NoOperation == [op |-> "none", kind |-> "none", before |-> NoFactory]

IdleCall == [pc |-> "idle", op |-> "none", kind |-> "none", form |-> "none",
             seen |-> NoFactory, returns |-> "none"]

\* The factory the program registers for a kind; the factories of the
\* content types are told apart.
CustomFactory(kind) ==
    CASE kind = "Content:1" -> "custom:1"
      [] kind = "Content:0" -> "custom:0"
      [] OTHER              -> "custom"

GetFactory(reg, kind) == reg[kind]

SetFactory(reg, kind, factory) == [reg EXCEPT ![kind] = factory]

\* An initialiser registering its default whatever is registered.
BuildFactoryAlways(reg, kind, seen) == SetFactory(reg, kind, "default")

\* Build*Factory after it has read the registered factory: the default is
\* registered when it has seen none.
BuildFactory(reg, kind, seen) ==
    IF seen = NoFactory THEN SetFactory(reg, kind, "default") ELSE reg

\* A lookup that takes the fallback factory whenever one is registered.
ContentFactoryFallbackFirst(reg, kind) ==
    IF GetFactory(reg, "Content:0") = NoFactory THEN GetFactory(reg, kind)
    ELSE GetFactory(reg, "Content:0")

\* ContentParse looks for the factory of the type, then for the fallback.
ContentFactoryFor(reg, kind) ==
    IF GetFactory(reg, kind) = NoFactory THEN GetFactory(reg, "Content:0")
    ELSE GetFactory(reg, kind)

\* The factory a parse or create call of a kind gets from the registry.
Lookup(reg, kind) ==
    IF kind \in ContentKinds THEN ContentFactoryFor(reg, kind) ELSE GetFactory(reg, kind)

\* What a parse is called with: a map, nothing, or an object that already
\* is a Content (nothing has no type and is listed under the unknown type,
\* the Content is one of type 1).
FormsOf(kind) ==
    CASE kind = "Content:1" -> {"map", "instance"}
      [] kind = "Content:0" -> {"map", "nothing"}
      [] OTHER              -> {"map"}

\* ContentParse up to the call of the factory: nil for nil and the argument
\* itself for a Content, without a look at the registry; for a map the
\* factory of its type or the fallback, whose ParseContent makes the result
\* (calling it on no factory at all is a nil dereference).
ContentParse(reg, kind, form) ==
    IF form = "nothing" THEN [pc |-> "ret", seen |-> NoFactory, returns |-> "nil"]
    ELSE IF form = "instance" THEN [pc |-> "ret", seen |-> NoFactory, returns |-> "same"]
    ELSE LET factory == ContentFactoryFor(reg, kind)
         IN  [pc |-> "got", seen |-> factory,
              returns |-> IF factory = NoFactory THEN "panic" ELSE "parsed"]

\* The calls the workers make: every kind is parsed, envelopes and instant
\* messages are created, the four message factories are built.
CallsOf(kind) ==
    {"parse"} \cup (IF kind \in {"Envelope", "Instant"} THEN {"create"} ELSE {})
              \cup (IF kind \in Variants THEN {"build"} ELSE {})

RegistryInit ==
    /\ MessageIdle
    /\ ContentIdle
    /\ registry = [kind \in RegistryKinds |-> NoFactory]
    /\ phase = "init"
    /\ lastop = NoOperation
    /\ calls = [t \in Threads |-> IdleCall]

\* The kinds init has not built yet, in its order.
Unbuilt == SelectSeq(InitOrder, LAMBDA kind : registry[kind] = NoFactory)

\* init() calls the next Build*Factory; it returns after the last.
InitBuild ==
    /\ phase = "init"
    /\ LET kind == Head(Unbuilt)
       IN  /\ registry' = BuildFactory(registry, kind, GetFactory(registry, kind))
           /\ lastop' = [op |-> "build", kind |-> kind, before |-> registry[kind]]
           /\ phase' = IF Len(Unbuilt) = 1 THEN "setup" ELSE "init"
    /\ UNCHANGED <<calls, messageVars, contentVars>>

\* The program registers a factory of its own before it starts its threads.
SetupSet ==
    /\ phase = "setup"
    /\ \E kind \in RegistryKinds :
         /\ registry[kind] # CustomFactory(kind)
         /\ registry' = SetFactory(registry, kind, CustomFactory(kind))
    /\ lastop' = NoOperation
    /\ UNCHANGED <<phase, calls, messageVars, contentVars>>

\* The program calls a Build*Factory itself.
SetupBuild ==
    /\ phase = "setup"
    /\ \E kind \in Variants :
         /\ registry' = BuildFactory(registry, kind, GetFactory(registry, kind))
         /\ lastop' = [op |-> "build", kind |-> kind, before |-> registry[kind]]
    /\ UNCHANGED <<phase, calls, messageVars, contentVars>>

\* The worker threads start.
Start ==
    /\ phase = "setup"
    /\ phase' = "run"
    /\ lastop' = NoOperation
    /\ UNCHANGED <<registry, calls, messageVars, contentVars>>

\* A worker enters a parse, create or build call, which reads the registry.
Call(t) ==
    /\ phase = "run"
    /\ calls[t].pc = "idle"
    /\ \E kind \in RegistryKinds : \E op \in CallsOf(kind) : \E form \in FormsOf(kind) :
         calls' = [calls EXCEPT ![t] =
                      IF kind \in ContentKinds
                      THEN [op |-> op, kind |-> kind, form |-> form]
                           @@ ContentParse(registry, kind, form)
                      ELSE [pc |-> "got", op |-> op, kind |-> kind, form |-> form,
                            seen |-> Lookup(registry, kind), returns |-> "none"]]
    /\ UNCHANGED <<registry, phase, lastop, messageVars, contentVars>>

\* The call goes on with the factory it has read: a build registers the
\* default when it has seen none, a parse or create uses the factory.
Return(t) ==
    /\ phase = "run"
    /\ calls[t].pc \in {"got", "ret"}
    /\ IF calls[t].op = "build"
       THEN /\ registry' = BuildFactory(registry, calls[t].kind, calls[t].seen)
            /\ lastop' = [op |-> "build", kind |-> calls[t].kind,
                          before |-> registry[calls[t].kind]]
       ELSE UNCHANGED <<registry, lastop>>
    /\ calls' = [calls EXCEPT ![t] = IdleCall]
    /\ UNCHANGED <<phase, messageVars, contentVars>>

RegistryNext ==
    \/ InitBuild
    \/ SetupSet
    \/ SetupBuild
    \/ Start
    \/ \E t \in Threads : Call(t)
    \/ \E t \in Threads : Return(t)

RegistrySpec == RegistryInit /\ [][RegistryNext]_vars

-----------------------------------------------------------------------------
(* Properties.                                                             *)

Transformations == {"encrypt", "decrypt", "sign", "verify", "split", "trim"}

\* The map of the i-th returned message.
Out(i) == heap[outs[i].ref]

\* C1: none of encrypt, decrypt, sign, verify, split and trim changes the
\* message it is called on.  Whatever the outcome (messages returned, a nil
\* result, a raised failure), the map of the source holds after the call
\* exactly what it held before, and every returned message is backed by a
\* map of its own, shared neither with the source nor with another output.
SourceNeverChanged ==
    last.op \in Transformations =>
        /\ heap[src.ref] = last.pre
        /\ \A i \in DOMAIN outs : outs[i].ref # src.ref
        /\ \A i, j \in DOMAIN outs : i # j => outs[i].ref # outs[j].ref

\* A split of a message carrying `keys` into two messages that differ from
\* the source.
SourceNeverChangedWitness ==
    /\ last.op = "split"
    /\ last.outcome = "ok"
    /\ Has(last.pre, "keys")
    /\ Len(outs) = 2
    /\ Out(1) # last.pre
    /\ heap[src.ref] = last.pre

EnvelopeFields == {"sender", "receiver", "time"}

\* The three variants of the data model: an InstantMessage is the envelope
\* (with an optional group) and a content; a SecureMessage is the envelope
\* and data with optional key and keys; a ReliableMessage adds a signature.
IsInstantMessage(m) ==
    /\ EnvelopeFields \cup {"content"} \subseteq DOMAIN m
    /\ DOMAIN m \subseteq EnvelopeFields \cup {"group", "content"}

IsSecureMessage(m) ==
    /\ EnvelopeFields \cup {"data"} \subseteq DOMAIN m
    /\ DOMAIN m \subseteq EnvelopeFields \cup {"group", "data", "key", "keys"}

IsReliableMessage(m) ==
    /\ Has(m, "signature")
    /\ IsSecureMessage(Del(m, "signature"))

SameEnvelope(m, n) ==
    /\ EnvelopeGetSender(m) = EnvelopeGetSender(n)
    /\ EnvelopeGetReceiver(m) = EnvelopeGetReceiver(n)
    /\ EnvelopeGetTime(m) = EnvelopeGetTime(n)

\* C2: the full personal pipeline.  A created message m encrypted for its
\* receiver with the key attached gives a map holding exactly the envelope
\* fields, `data` and `key`; signing that adds exactly `signature`; and
\* after verify and decrypt by an honest delegate the result is an
\* InstantMessage whose content, sender, receiver and time are those of m.
PersonalPipeline ==
    /\ stage = "encrypted" =>
          /\ DOMAIN Out(1) = EnvelopeFields \cup {"data", "key"}
          /\ SameEnvelope(Out(1), root)
    /\ stage = "signed" =>
          /\ DOMAIN Out(1) = EnvelopeFields \cup {"data", "key", "signature"}
          /\ SameEnvelope(Out(1), root)
          /\ Del(Out(1), "signature") = last.pre
    /\ stage = "decrypted" =>
          /\ outs[1].kind = "Instant"
          /\ Out(1)["content"] = root["content"]
          /\ SameEnvelope(Out(1), root)

\* The pipeline has run to its end on a message whose content carries a
\* time of its own.
PersonalPipelineWitness ==
    /\ stage = "decrypted"
    /\ last.op = "decrypt"
    /\ prev.op = "verify"
    /\ Has(root["content"], "time")
    /\ Out(1)["content"].text = "Hey guy!"

\* A decrypt that succeeded with a delegate returning the content it was
\* given, called on what a personal encrypt (members nil) returned.
DecryptedAfterPersonalEncrypt ==
    /\ last.op = "decrypt"
    /\ last.outcome = "ok"
    /\ ~last.d.forge
    /\ prev.op = "encrypt"
    /\ prev.personal

VerifiedAfterSign ==
    /\ last.op = "verify"
    /\ last.outcome = "ok"
    /\ prev.op = "sign"

EncryptReturned ==
    /\ last.op = "encrypt"
    /\ last.outcome = "ok"
    /\ IsInstantMessage(last.pre)

\* C5: the shape of what encrypt returns.  The message s returned by
\* m.encrypt(pw, members) has the envelope fields of m, no `content`, and
\* `data`; it has `key` iff members is nil and the key was serialized and
\* encrypted for the receiver; it has `keys` iff members is a list and the
\* key was serialized and encrypted for at least one member.  An empty
\* member list gives neither, and so does a delegate serializing no key.
EncryptResultShape ==
    EncryptReturned =>
        LET m       == last.pre
            s       == Out(1)
            members == last.args.members
            d       == last.d
            hit     == Range(members.list) \cap d.pks # {}
        IN  /\ \A k \in DOMAIN m \ {"content"} : Has(s, k) /\ s[k] = m[k]
            /\ DOMAIN s \subseteq (DOMAIN m \ {"content"}) \cup {"data", "key", "keys"}
            /\ ~Has(s, "content")
            /\ Has(s, "data")
            /\ Has(s, "key") <=> (members.nil /\ ~d.noKey)
            /\ Has(s, "keys") <=> (~members.nil /\ ~d.noKey /\ hit)
            /\ (~members.nil /\ members.list = <<>>) =>
                   ~Has(s, "key") /\ ~Has(s, "keys")
            /\ d.noKey => ~Has(s, "key") /\ ~Has(s, "keys")

\* A group encrypt in which the key of one of two members was encrypted.
EncryptResultShapeWitness ==
    /\ EncryptReturned
    /\ ~last.args.members.nil
    /\ Len(last.args.members.list) = 2
    /\ Cardinality(last.d.pks) = 1
    /\ Has(Out(1), "keys")
    /\ DOMAIN Out(1)["keys"] = last.d.pks

\* C6: split(members) returns exactly Len(members) messages, in the order
\* of members, a member listed twice giving two of them; the i-th has
\* members[i] as its receiver and, as its group, the receiver the source had
\* when split was called.
SplitOneMessagePerMember ==
    last.op = "split" =>
        /\ last.outcome = "ok"
        /\ Len(outs) = Len(last.args.members)
        /\ \A i \in DOMAIN outs :
              /\ EnvelopeGetReceiver(Out(i)) = Some(last.args.members[i])
              /\ EnvelopeGetGroup(Out(i)) = EnvelopeGetReceiver(last.pre)

\* A split for the same member twice.
SplitOneMessagePerMemberWitness ==
    /\ last.op = "split"
    /\ Len(last.args.members) = 2
    /\ last.args.members[1] = last.args.members[2]
    /\ Len(outs) = 2
    /\ EnvelopeGetReceiver(Out(2)) = Some(last.args.members[2])

\* What trim does to receiver, group and keys: the receiver becomes the
\* member, the group is the source's group if it had one and its receiver
\* otherwise, and `keys` is gone.
TrimRouting ==
    /\ last.outcome = "ok"
    /\ EnvelopeGetReceiver(Out(1)) = Some(last.args.member)
    /\ EnvelopeGetGroup(Out(1)) = IF Has(last.pre, "group")
                                  THEN EnvelopeGetGroup(last.pre)
                                  ELSE EnvelopeGetReceiver(last.pre)
    /\ ~Has(Out(1), "keys")

\* The source's `keys` has an entry for the member trim was called with.
TrimKeysEntry ==
    /\ Has(last.pre, "keys")
    /\ last.args.member \in DOMAIN last.pre["keys"]

\* C7 as claimed: trim(m) returns a message with receiver m, the group as
\* in TrimRouting, no `keys`, and with `key` if and only if the source's
\* `keys` had an entry for m, for every source, one carrying a `key` of its
\* own included.
TrimKeyOnlyFromKeys ==
    last.op = "trim" =>
        /\ TrimRouting
        /\ Has(Out(1), "key") <=> TrimKeysEntry

\* C7 as the code has it: trim(m) returns a message with receiver m, the
\* group as in TrimRouting and no `keys`; it contains `key` if and only if
\* the source's `keys` had an entry for m or the source carried a `key` of
\* its own, and that `key` is the entry of `keys` in the first case and the
\* source's own `key` in the second.
TrimKeepsOwnKey ==
    last.op = "trim" =>
        /\ TrimRouting
        /\ Has(Out(1), "key") <=> (TrimKeysEntry \/ Has(last.pre, "key"))
        /\ Has(Out(1), "key") =>
              Out(1)["key"] = IF TrimKeysEntry
                              THEN last.pre["keys"][last.args.member]
                              ELSE last.pre["key"]

\* A trim of a message with a `key` of its own and `keys` without an entry
\* for the member: the own `key` is still there.
TrimKeepsOwnKeyWitness ==
    /\ last.op = "trim"
    /\ Has(last.pre, "key")
    /\ Has(last.pre, "keys")
    /\ ~TrimKeysEntry
    /\ Has(Out(1), "key")
    /\ Out(1)["key"] = last.pre["key"]

\* Verify was called on a message with data and signature and the
\* delegate's VerifyDataSignature returned (it did not raise).
VerifyAnswered ==
    /\ last.op = "verify"
    /\ last.d.verify # "raise"
    /\ EncryptedData(last.pre) # Nil
    /\ Signature(last.pre) # Nil

\* What the delegate's VerifyDataSignature returned in the last verify.
VerifyAccepted ==
    VerifyDataSignature(EncryptedData(last.pre)[1], Signature(last.pre)[1],
                        EnvelopeGetSender(last.pre), last.d)

\* C8: a signature mismatch is a nil result, not a failure.  When the
\* delegate's VerifyDataSignature returns false, verify returns nil without
\* raising and the message it was called on is unchanged; when it returns
\* true, verify returns a plain SecureMessage whose map is the source's map
\* without `signature`.
VerifyMismatchIsNil ==
    VerifyAnswered =>
        IF VerifyAccepted
        THEN /\ last.outcome = "ok"
             /\ Len(outs) = 1
             /\ outs[1].kind = "Secure"
             /\ Out(1) = Del(last.pre, "signature")
        ELSE /\ last.outcome = "nil"
             /\ outs = <<>>
             /\ heap[src.ref] = last.pre

\* A verify of a signed message that the delegate rejected.
VerifyMismatchIsNilWitness ==
    /\ VerifyAnswered
    /\ prev.op = "sign"
    /\ ~VerifyAccepted
    /\ last.outcome = "nil"
    /\ heap[src.ref] = last.pre

\* A personal encrypt (members nil) in which the key was serialized and the
\* delegate's EncryptKey returned nil for the receiver.
ReceiverKeyMissing ==
    /\ last.op = "encrypt"
    /\ Has(last.pre, "content")
    /\ last.args.members.nil
    /\ last.d.raise = "no"
    /\ ~last.d.noKey
    /\ EncryptKey([ser |-> last.args.password],
                  EnvelopeGetReceiver(last.pre)[1], last.d) = Nil

\* C9 as claimed: such an encrypt fails with a raised failure, it is not a
\* nil result, and no SecureMessage is produced.
MissingReceiverKeyRaised ==
    ReceiverKeyMissing =>
        /\ last.outcome = "panic"
        /\ outs = <<>>

\* C9 as the code has it: such an encrypt returns nil, nothing is raised,
\* no SecureMessage is produced and the message is left as it was.
MissingReceiverKeyIsNil ==
    ReceiverKeyMissing =>
        /\ last.outcome = "nil"
        /\ outs = <<>>
        /\ heap[src.ref] = last.pre

\* A created message encrypted for a receiver whose public key the
\* delegate does not have.
MissingReceiverKeyIsNilWitness ==
    /\ ReceiverKeyMissing
    /\ prev.op = "create"
    /\ last.d.pks = {}
    /\ last.outcome = "nil"

\* C10 as claimed: parsing a raw map picks the variant with the priority
\* signature, then data, then content: a map with `signature` gives a
\* ReliableMessage even when it also has `content` or `data`, a map with
\* `data` and no `signature` gives a SecureMessage, a map with only
\* `content` gives an InstantMessage.
ParseSignatureFirst ==
    last.op = "parse" =>
        /\ Has(last.pre, "signature") => outs[1].kind = "Reliable"
        /\ (Has(last.pre, "data") /\ ~Has(last.pre, "signature")) =>
              outs[1].kind = "Secure"
        /\ (Has(last.pre, "content") /\ ~Has(last.pre, "data")
               /\ ~Has(last.pre, "signature")) => outs[1].kind = "Instant"

\* C10 as the code has it: the priority is content, then signature, then
\* data: a map with `content` gives an InstantMessage even when it also
\* has `signature` or `data`, a map with `signature` and no `content` gives
\* a ReliableMessage, and a map with `data` and neither gives a
\* SecureMessage.
ParseContentFirst ==
    last.op = "parse" =>
        /\ Len(outs) = 1
        /\ outs[1].ref = src.ref
        /\ Has(last.pre, "content") => outs[1].kind = "Instant"
        /\ (Has(last.pre, "signature") /\ ~Has(last.pre, "content")) =>
              outs[1].kind = "Reliable"
        /\ (Has(last.pre, "data") /\ ~Has(last.pre, "signature")
               /\ ~Has(last.pre, "content")) => outs[1].kind = "Secure"

\* A raw map with `content`, `data` and `signature` parsed as an
\* InstantMessage.
ParseContentFirstWitness ==
    /\ last.op = "parse"
    /\ {"content", "data", "signature"} \subseteq DOMAIN last.pre
    /\ outs[1].kind = "Instant"

-----------------------------------------------------------------------------
(* Factory parse of incomplete dictionaries.                               *)

\* The mandatory field the factory of the variant of the last parse did
\* not find in the dictionary it was given.
Incomplete(variant, m) ==
    \/ variant = "Envelope" /\ ~Has(m, "sender")
    \/ variant = "Instant" /\ ~Has(m, "content")
    \/ variant = "Reliable" /\ (~Has(m, "sender") \/ ~Has(m, "data") \/ ~Has(m, "signature"))

\* C11: a factory parse of a dictionary without `sender` (Envelope), without
\* `content` (Instant) or without any of `sender`, `data`, `signature`
\* (Reliable) returns nothing and does not raise.
IncompleteMapIsNothing ==
    (last.op = "factory" /\ last.args.form = "map"
        /\ Incomplete(last.args.variant, last.pre))
    => last.outcome = "nil"

-----------------------------------------------------------------------------
(* Mandatory fields of the secure and reliable variants.                   *)

\* C12: every Secure or Reliable instance returned by a factory parse or by
\* encrypt, sign, verify, split or trim has `data` in its map, and every
\* Reliable instance has `signature`.
ReturnedSecureHasData ==
    (last.op \in {"factory", "encrypt", "sign", "verify", "split", "trim"}
        /\ last.outcome = "ok")
    => \A i \in DOMAIN outs :
         /\ outs[i].kind \in {"Secure", "Reliable"} => Has(Out(i), "data")
         /\ outs[i].kind = "Reliable" => Has(Out(i), "signature")

-----------------------------------------------------------------------------
(* Parsing what is already parsed.                                         *)

-----------------------------------------------------------------------------
(* Accessors of a created instant message.                                 *)

\* C14: an InstantMessage built from (env, content) has the envelope's
\* sender and receiver, the content's type and group, and the content's
\* time when the content has one, the envelope's time otherwise.
CreatedAccessors ==
    last.op = "create" =>
        LET m == Out(1)
            env == last.pre
            content == last.args.content
        IN  /\ EnvelopeGetSender(m) = EnvelopeGetSender(env)
            /\ EnvelopeGetReceiver(m) = EnvelopeGetReceiver(env)
            /\ PlainMessageType(m) = content["type"]
            /\ PlainMessageGroup(m) = ContentGetGroup(content)
            /\ PlainMessageTime(m) = IF Has(content, "time") THEN Some(content["time"])
                                     ELSE Some(env["time"])

CreatedAccessorsWitness ==
    /\ last.op = "create"
    /\ ~Has(last.args.content, "time")
    /\ Has(last.args.content, "group")
    /\ PlainMessageTime(Out(1)) = Some(Times.envelope)
    /\ PlainMessageGroup(Out(1)) = Some("H")

-----------------------------------------------------------------------------
(* Ownership of the backing map.                                           *)

\* C15: creating an InstantMessage from (env, content) leaves the map of
\* the envelope as it was, and of two messages created from the same
\* envelope with different contents each keeps its own `content`: creating
\* the second does not change the map of the first.
ExclusiveOwnership ==
    /\ last.op = "create" => heap[src.ref] = last.pre
    /\ last.op = "create2"
       => /\ Out(1) = last.pre
          /\ Out(1)["content"] = root["content"]
          /\ Out(2)["content"] = last.args.content

-----------------------------------------------------------------------------
(* The serial number of a constructed content.                             *)

\* C16: the serial-number generator never returns 0, a zero draw being
\* replaced by the sentinel, and the content constructed from a type stores
\* the generated non-zero number as its `sn`.
SerialNumberNeverZero ==
    \A i \in DOMAIN made :
        made[i].rev \in {"random", "guarded"}
        => /\ made[i].content["sn"] # 0
           /\ made[i].draw = 0 => made[i].content["sn"] = Sentinel
           /\ made[i].draw # 0 => made[i].content["sn"] = made[i].draw

\* C17: the sn of a constructed content does not depend on the creation
\* time: contents made from equal draws of the random source have equal sn
\* whatever their time stamps, and contents made at the same time stamp from
\* different draws have different sn.
SerialNumberIndependentOfTime ==
    \A i, j \in DOMAIN made :
        made[i].rev = made[j].rev
        => /\ made[i].draw = made[j].draw
              => made[i].content["sn"] = made[j].content["sn"]
           /\ (made[i].stamp = made[j].stamp /\ made[i].draw # made[j].draw)
              => made[i].content["sn"] # made[j].content["sn"]

-----------------------------------------------------------------------------
(* The registries under concurrent calls.                                  *)

\* C18: once initialisation has registered the factories, every concurrent
\* parse or create call observes the factory registered for its kind, never
\* an unset one for the four message kinds, and a Build*Factory registers
\* its default only when none is registered and never replaces a factory.
RegistryConsistent ==
    /\ phase = "run" => \A kind \in Variants : registry[kind] # NoFactory
    /\ \A t \in DOMAIN calls :
         calls[t].pc = "got"
         => /\ calls[t].seen = Lookup(registry, calls[t].kind)
            /\ calls[t].kind \in Variants => calls[t].seen # NoFactory
    /\ lastop.op = "build"
       => registry[lastop.kind] = IF lastop.before = NoFactory THEN "default"
                                  ELSE lastop.before

RegistryConsistentWitness ==
    /\ phase = "run"
    /\ \A t \in Threads : calls[t].pc = "got" /\ calls[t].op # "build"
    /\ \E t \in Threads : calls[t].seen = "custom"
    /\ lastop.op = "build"
    /\ lastop.before = "custom"

-----------------------------------------------------------------------------
(* The key fields of an encrypted message.                                 *)

\* C19 as stated: an encrypted message for which a key was serialised has
\* exactly one of `key` and `keys`, and one for which none was serialised
\* has neither, whatever the members.
ExactlyOneKeyField ==
    EncryptReturned =>
        LET s == Out(1)
        IN  IF last.d.noKey THEN ~Has(s, "key") /\ ~Has(s, "keys")
            ELSE Has(s, "key") # Has(s, "keys")

\* C19: an encrypted message never has both `key` and `keys`.  With a
\* serialised key it has `key` when members is absent, `keys` when the key
\* was encrypted for at least one member, and neither when members is empty
\* or no member's key could be encrypted; without a serialised key it has
\* neither.
AtMostOneKeyField ==
    EncryptReturned =>
        LET s       == Out(1)
            members == last.args.members
            d       == last.d
            hit     == Range(members.list) \cap d.pks # {}
        IN  /\ ~(Has(s, "key") /\ Has(s, "keys"))
            /\ d.noKey => ~Has(s, "key") /\ ~Has(s, "keys")
            /\ (~d.noKey /\ members.nil) => Has(s, "key")
            /\ (~d.noKey /\ ~members.nil /\ hit) => Has(s, "keys")
            /\ (~d.noKey /\ ~members.nil /\ ~hit) => ~Has(s, "key") /\ ~Has(s, "keys")

\* A group encrypt with a serialised key none of whose members has a key.
AtMostOneKeyFieldWitness ==
    /\ EncryptReturned
    /\ ~last.d.noKey
    /\ ~last.args.members.nil
    /\ Len(last.args.members.list) = 2
    /\ Range(last.args.members.list) \cap last.d.pks = {}
    /\ ~Has(Out(1), "key")
    /\ ~Has(Out(1), "keys")

\* A group encrypt of an InstantMessage for which the key was serialised.
GroupEncryptCalled ==
    /\ last.op = "encrypt"
    /\ IsInstantMessage(last.pre)
    /\ ~last.args.members.nil
    /\ last.d.raise = "no"
    /\ ~last.d.noKey

\* C20: a group encrypt with a serialised key returns a message, whichever
\* member keys are unavailable; its `keys` has an entry for x exactly when x
\* is a member for which encrypt_key yielded bytes, the entry is the
\* encoding of the key encrypted for x, and `keys` is absent when there is
\* no such member.
GroupKeysOfSucceededMembers ==
    GroupEncryptCalled =>
        LET members == Range(last.args.members.list)
            hits    == {x \in members : EncryptKey([ser |-> last.args.password], x, last.d) # Nil}
        IN  /\ last.outcome = "ok"
            /\ Len(outs) = 1
            /\ Has(Out(1), "keys") <=> hits # {}
            /\ Has(Out(1), "keys")
               => /\ DOMAIN Out(1)["keys"] = hits
                  /\ \A x \in hits :
                       Out(1)["keys"][x] =
                           Encode([to |-> x, key |-> [ser |-> last.args.password]])

\* Of two different members the first has no key and the second has one.
GroupKeysOfSucceededMembersWitness ==
    /\ GroupEncryptCalled
    /\ Len(last.args.members.list) = 2
    /\ last.args.members.list[1] \notin last.d.pks
    /\ last.args.members.list[2] \in last.d.pks
    /\ DOMAIN Out(1)["keys"] = {last.args.members.list[2]}

-----------------------------------------------------------------------------
(* The key of each message split returns.                                  *)

\* C21: no message split returns has `keys`; the i-th has as `key` the
\* entry of the source's `keys` for members[i] when there is one and no
\* `key` otherwise, whatever `key` the source carried and whatever the
\* message before it received; and the messages returned have maps of their
\* own, different from each other and from the source's.
SplitInlinesKeys ==
    (last.op = "split" /\ last.outcome = "ok") =>
        LET keys == IF Has(last.pre, "keys") THEN last.pre["keys"] ELSE EmptyMap
        IN  /\ \A i \in DOMAIN outs :
                 /\ ~Has(Out(i), "keys")
                 /\ IF last.args.members[i] \in DOMAIN keys
                    THEN Has(Out(i), "key") /\ Out(i)["key"] = keys[last.args.members[i]]
                    ELSE ~Has(Out(i), "key")
                 /\ outs[i].ref # src.ref
            /\ \A i, j \in DOMAIN outs : i # j => outs[i].ref # outs[j].ref

\* The source carries a `key` of its own and `keys` with an entry for the
\* first of two members only.
SplitInlinesKeysWitness ==
    /\ last.op = "split"
    /\ Has(last.pre, "key")
    /\ Has(last.pre, "keys")
    /\ Len(outs) = 2
    /\ last.args.members[1] \in DOMAIN last.pre["keys"]
    /\ last.args.members[2] \notin DOMAIN last.pre["keys"]
    /\ Has(Out(1), "key")
    /\ ~Has(Out(2), "key")

-----------------------------------------------------------------------------
(* The delegate calls of decrypt.                                          *)

\* The delegate calls the last operation made.
Log == last.args.log

\* The calls of a delegate method among them.
Calls(fn) == {i \in DOMAIN Log : Log[i].fn = fn}

\* C22: the receiver decrypt hands to decrypt_key and deserialize_key is the
\* envelope's `group` when the message has one and the envelope's `receiver`
\* otherwise, and the sender is the envelope's `sender`; unless the delegate
\* itself raises, deserialize_key or a failing decrypt_key is called.
DecryptRoutesByGroup ==
    last.op = "decrypt" =>
        /\ \A i \in Calls("DecryptKey") \cup Calls("DeserializeKey") :
              /\ Log[i].args[2] = EnvelopeGetSender(last.pre)
              /\ Log[i].args[3] = IF Has(last.pre, "group") THEN EnvelopeGetGroup(last.pre)
                                  ELSE EnvelopeGetReceiver(last.pre)
        /\ ~last.d.raise => Calls("DecryptKey") \cup Calls("DeserializeKey") # {}

\* A message split for a member, with the member's key attached, is
\* decrypted: the delegate is given the group.
DecryptRoutesByGroupWitness ==
    /\ last.op = "decrypt"
    /\ last.outcome = "ok"
    /\ prev.op = "split"
    /\ Has(last.pre, "group")
    /\ Has(last.pre, "key")
    /\ EnvelopeGetGroup(last.pre) # EnvelopeGetReceiver(last.pre)
    /\ Calls("DecryptKey") # {}
    /\ \A i \in Calls("DecryptKey") : Log[i].args[3] = EnvelopeGetGroup(last.pre)

\* What the delegate answers to a call of the log.
Yields(call, d) ==
    CASE call.fn = "DecryptKey" ->
             DecryptKey(call.args[1][1], call.args[2], call.args[3], d)
      [] call.fn = "DeserializeKey" ->
             DeserializeKey(call.args[1], call.args[2], call.args[3], d)
      [] call.fn = "DecryptContent" ->
             DecryptContent(call.args[1][1], call.args[2][1], d)
      [] call.fn = "DeserializeContent" ->
             DeserializeContent(call.args[1][1], call.args[2][1], d)

\* The delegate steps of a decrypt of m, in their order.
DecryptSteps(m) ==
    (IF EncryptedKey(m) # Nil THEN <<"DecryptKey">> ELSE <<>>)
    \o <<"DeserializeKey", "DecryptContent", "DeserializeContent">>

\* The failure raised when a delegate step yields nothing.
FailureOf(fn) ==
    CASE fn = "DecryptKey"         -> "KeyDecryptFailed"
      [] fn = "DeserializeKey"     -> "MissingSessionKey"
      [] fn = "DecryptContent"     -> "ContentDecryptFailed"
      [] fn = "DeserializeContent" -> "ContentParseFailed"

\* C23: decrypt makes its delegate calls in the fixed order decrypt_key
\* (only when a key is attached), deserialize_key (with no key bytes when none
\* is attached), decrypt_content, deserialize_content, and stops at the first
\* step that fails: a call that yields nothing raises its own failure, absent
\* data raises MissingData right after a key was obtained, no later delegate
\* step is invoked and no InstantMessage is produced; only when every step
\* succeeded is a message returned.
DecryptFailsInOrder ==
    (last.op = "decrypt" /\ ~last.d.raise) =>
        LET steps == DecryptSteps(last.pre)
            n     == Len(Log)
        IN  /\ n \in 1..Len(steps)
            /\ \A i \in 1..n : Log[i].fn = steps[i]
            /\ \A i \in 1..(n - 1) : Yields(Log[i], last.d) # Nil
            /\ EncryptedKey(last.pre) = Nil =>
                  (Calls("DecryptKey") = {} /\ Log[1].args[1] = Nil)
            /\ Calls("DecryptContent") # {} => EncryptedData(last.pre) # Nil
            /\ IF Yields(Log[n], last.d) = Nil
               THEN /\ last.args.failure = FailureOf(Log[n].fn)
                    /\ last.outcome = "panic"
                    /\ outs = <<>>
               ELSE IF Log[n].fn = "DeserializeKey"
               THEN /\ EncryptedData(last.pre) = Nil
                    /\ last.args.failure = "MissingData"
                    /\ last.outcome = "panic"
                    /\ outs = <<>>
               ELSE /\ n = Len(steps)
                    /\ last.args.failure = "none"
                    /\ last.outcome = "ok"
                    /\ Len(outs) = 1
                    /\ outs[1].kind = "Instant"

\* A decrypt in which the key decryption, the content decryption and the
\* content parsing would all fail: the first failure is raised after one call.
DecryptFailsInOrderWitness ==
    /\ last.op = "decrypt"
    /\ EncryptedKey(last.pre) # Nil
    /\ ~last.d.keyOK /\ ~last.d.decOK /\ ~last.d.parseOK
    /\ last.args.failure = "KeyDecryptFailed"
    /\ Len(Log) = 1
    /\ outs = <<>>

\* A decrypt of a message without data whose key came from the cache.
DecryptMissingData ==
    /\ last.op = "decrypt"
    /\ last.args.failure = "MissingData"
    /\ ~last.d.decOK
    /\ Calls("DecryptKey") = {}
    /\ Calls("DecryptContent") = {}

-----------------------------------------------------------------------------
(* Verify: the checks before the delegate.                                 *)

\* C24: verify looks at its inputs before it consults the delegate: without
\* decodable `data` it raises MissingData, otherwise without a decodable
\* `signature` it raises MissingSignature; both are raised failures, not the
\* nil of a mismatch, MissingData wins when both are absent, and
\* verify_data_signature is not invoked in either case; with both inputs
\* present the delegate is asked exactly once.
VerifyChecksInputsFirst ==
    (last.op = "verify" /\ last.d.verify # "raise") =>
        IF EncryptedData(last.pre) = Nil
        THEN /\ last.args.failure = "MissingData"
             /\ last.outcome = "panic"
             /\ Log = <<>>
        ELSE IF Signature(last.pre) = Nil
        THEN /\ last.args.failure = "MissingSignature"
             /\ last.outcome = "panic"
             /\ Log = <<>>
        ELSE /\ last.args.failure = "none"
             /\ last.outcome \in {"ok", "nil"}
             /\ Len(Log) = 1
             /\ Log[1] = Invoke("VerifyDataSignature",
                                <<EncryptedData(last.pre), Signature(last.pre),
                                  EnvelopeGetSender(last.pre)>>)

\* A verify of a message of which neither the data nor the signature decodes.
VerifyChecksInputsFirstWitness ==
    /\ last.op = "verify"
    /\ last.d.verify = "honest"
    /\ EncryptedData(last.pre) = Nil
    /\ Signature(last.pre) = Nil
    /\ last.args.failure = "MissingData"
    /\ outs = <<>>

\* A verify of a message whose data decodes and whose signature does not.
VerifyMissingSignature ==
    /\ last.op = "verify"
    /\ EncryptedData(last.pre) # Nil
    /\ last.args.failure = "MissingSignature"

-----------------------------------------------------------------------------
(* Secure parse and Reliable parse.                                        *)

\* C25: on a map with `signature` Secure parse returns what Reliable parse
\* returns for that map, nothing included when `sender` or `data` is
\* missing; on a map without `signature` it returns a plain SecureMessage.
SecureParseAgreesWithReliable ==
    (last.op = "factory" /\ last.args.variant = "Secure" /\ last.args.form = "map") =>
        IF Has(last.pre, "signature")
        THEN LET reliable == ReliableMessageParse(<<last.pre>>, 1)
             IN  IF reliable = Nil THEN outs = <<>>
                 ELSE /\ Len(outs) = 1
                      /\ outs[1].kind = "Reliable"
                      /\ heap[outs[1].ref] = last.pre
        ELSE /\ Len(outs) = 1
             /\ outs[1].kind = "Secure"

-----------------------------------------------------------------------------
(* The key a message carries for its receiver.                             *)

\* The key bytes decrypt handed to decrypt_key, if it was called.
KeyHanded == {Log[i].args[1] : i \in Calls("DecryptKey")}

\* The entry of `keys` for the receiver of m.
ReceiverEntry(m) == m["keys"][EnvelopeGetReceiver(m)[1]]

HasReceiverEntry(m) ==
    /\ Has(m, "keys")
    /\ EnvelopeGetReceiver(m) # Nil
    /\ EnvelopeGetReceiver(m)[1] \in DOMAIN m["keys"]

\* C26 as stated: the entry of `keys` for the receiver is the key of the
\* message when there is one, `key` otherwise, and without either there is
\* no key.
KeysEntryTakesPrecedence ==
    (last.op = "decrypt" /\ ~last.d.raise) =>
        IF HasReceiverEntry(last.pre)
        THEN KeyHanded = {DecodeKey(ReceiverEntry(last.pre))}
        ELSE IF Has(last.pre, "key")
        THEN KeyHanded = {DecodeKey(last.pre["key"])}
        ELSE KeyHanded = {}

\* C26, amended: `key` is the key of the message whenever the map has one,
\* also next to a `keys` entry for the receiver; without `key` it is the
\* entry of `keys` for the receiver, the empty string when `keys` has no such
\* entry; with neither `key` nor `keys` there is no key.
KeyTakesPrecedence ==
    (last.op = "decrypt" /\ ~last.d.raise) =>
        IF Has(last.pre, "key")
        THEN KeyHanded = {DecodeKey(last.pre["key"])}
        ELSE IF HasReceiverEntry(last.pre)
        THEN KeyHanded = {DecodeKey(ReceiverEntry(last.pre))}
        ELSE IF Has(last.pre, "keys")
        THEN KeyHanded = {DecodeKey(EmptyStr)}
        ELSE KeyHanded = {}

\* A message with `key` and with an entry of `keys` for its receiver that
\* differs from it is decrypted with the `key`.
KeyTakesPrecedenceWitness ==
    /\ last.op = "decrypt"
    /\ last.outcome = "ok"
    /\ Has(last.pre, "key")
    /\ HasReceiverEntry(last.pre)
    /\ ReceiverEntry(last.pre) # last.pre["key"]
    /\ KeyHanded = {DecodeKey(last.pre["key"])}

-----------------------------------------------------------------------------
(* Content parse.                                                          *)

\* C27: a content parse of a map uses the factory registered for the type of
\* the content, and the one registered under the unknown type 0 only when
\* none is registered for that type; parsing nothing returns nothing and
\* parsing a Content returns that Content, neither with a look at the
\* registry.
ContentParseSelectsFactory ==
    \A t \in Threads :
        (calls[t].pc # "idle" /\ calls[t].kind \in ContentKinds) =>
            LET call == calls[t]
            IN  CASE call.form = "nothing" ->
                         call.returns = "nil" /\ call.seen = NoFactory
                  [] call.form = "instance" ->
                         call.returns = "same" /\ call.seen = NoFactory
                  [] call.form = "map" ->
                         IF registry[call.kind] # NoFactory
                         THEN call.seen = registry[call.kind] /\ call.returns = "parsed"
                         ELSE IF registry["Content:0"] # NoFactory
                         THEN call.seen = registry["Content:0"] /\ call.returns = "parsed"
                         ELSE call.returns = "panic"

\* With a factory for type 1 and a fallback registered, a parse of a map of
\* type 1 has the factory of type 1, while another thread parses a Content.
ContentParseSelectsFactoryWitness ==
    /\ phase = "run"
    /\ registry["Content:1"] = "custom:1"
    /\ registry["Content:0"] = "custom:0"
    /\ calls[1].kind = "Content:1"
    /\ calls[1].form = "map"
    /\ calls[1].seen = "custom:1"
    /\ calls[2].kind = "Content:1"
    /\ calls[2].form = "instance"
    /\ calls[2].returns = "same"

\* Without a factory for type 1, a parse of a map of type 1 has the fallback.
ContentParseFallback ==
    /\ phase = "run"
    /\ registry["Content:1"] = NoFactory
    /\ calls[1].kind = "Content:1"
    /\ calls[1].form = "map"
    /\ calls[1].seen = "custom:0"

-----------------------------------------------------------------------------
(* Split and trim of signed messages.                                      *)

SignedFields == {"sender", "time", "data", "signature"}

\* Two maps agree on the fields a signature covers and on the signature.
SameSigned(a, b) ==
    \A k \in SignedFields : Has(a, k) = Has(b, k) /\ (Has(a, k) => a[k] = b[k])

\* C28: every output of split or trim has the `sender`, `time`, `data` and
\* `signature` of the source, present or absent alike, and is a
\* ReliableMessage exactly when the source's map has `signature`; verify on
\* an output makes the delegate call, and has the outcome, that verify on the
\* source has with the same delegate.
FanOutKeepsSigned ==
    /\ last.op \in {"split", "trim"} =>
          \A i \in DOMAIN outs :
              /\ SameSigned(Out(i), last.pre)
              /\ outs[i].kind = (IF Has(last.pre, "signature") THEN "Reliable" ELSE "Secure")
    /\ (last.op = "verify" /\ prev.op \in {"split", "trim"}) =>
          LET onSource == Verify(<<prev.pre>>, 1, last.d)
          IN  /\ SameSigned(last.pre, prev.pre)
              /\ Log = onSource.log
              /\ last.outcome = onSource.outcome
              /\ last.args.failure = onSource.failure

\* An output of the split of a signed group message is verified and
\* accepted, the delegate having been given the source's data, signature
\* and sender.
FanOutKeepsSignedWitness ==
    /\ last.op = "verify"
    /\ prev.op = "split"
    /\ Has(prev.pre, "keys")
    /\ last.outcome = "ok"
    /\ Log = <<Invoke("VerifyDataSignature",
                      <<EncryptedData(prev.pre), Signature(prev.pre),
                        EnvelopeGetSender(prev.pre)>>)>>
    /\ EnvelopeGetReceiver(last.pre) # EnvelopeGetReceiver(prev.pre)

\* An output of a trim of a signed message is verified and rejected.
FanOutRejected ==
    /\ last.op = "verify"
    /\ prev.op = "trim"
    /\ last.outcome = "nil"
    /\ last.d.verify = "reject"

-----------------------------------------------------------------------------
(* Where a signature comes from.                                           *)

\* The maps of the message the last operation was called on and of the
\* messages it returned.
LiveMaps == {heap[1]} \cup {Out(i) : i \in DOMAIN outs}

\* C29: along the operations on a created message, a map with `signature`
\* has `data`, the signature is the one sign computes over that data for the
\* sender, no map has `content` together with `signature`, and encrypt does
\* not return a ReliableMessage.
SignatureProvenance ==
    (root # EmptyMap /\ last.op \in {"create", "encrypt", "sign", "verify",
                                     "decrypt", "split", "trim"}) =>
        /\ \A m \in LiveMaps :
              Has(m, "signature") =>
                  /\ Has(m, "data")
                  /\ ~Has(m, "content")
                  /\ Signature(m) = Some(SignData(EncryptedData(m), EnvelopeGetSender(m)))
        /\ last.op = "encrypt" => \A i \in DOMAIN outs : outs[i].kind # "Reliable"

\* A signed message was decrypted without a verify and the result encrypted
\* again: encrypt returns a reliable message, carrying the signature of the
\* earlier sign.
StaleSignatureReencrypted ==
    /\ root # EmptyMap
    /\ last.op = "encrypt"
    /\ prev.op = "decrypt"
    /\ Len(outs) = 1
    /\ outs[1].kind = "Reliable"
    /\ Has(prev.pre, "signature")
    /\ Out(1)["signature"] = prev.pre["signature"]

-----------------------------------------------------------------------------
(* The keys of a group message, from encrypt to decrypt.                   *)

\* The created message is addressed to a group, not to one of the members.
GroupRoot ==
    /\ root # EmptyMap
    /\ EnvelopeGetReceiver(root) # Nil
    /\ EnvelopeGetReceiver(root)[1] \notin Members

\* A created group message was encrypted for members, perhaps signed, and
\* then split or trimmed.
FannedOut ==
    /\ GroupRoot
    /\ last.op \in {"split", "trim"}
    /\ prev.op \in {"encrypt", "sign"}
    /\ ~prev.personal
    /\ ~Has(last.pre, "key")

\* The key encrypt makes for member x of a message with the data of m.
KeyFor(m, x) ==
    EncodeKey(EncryptKey([ser |-> EncryptedData(m)[1].pw], x, [pks |-> {x}])[1])

\* C30: when a group message that was encrypted for members, and perhaps
\* signed, is split or trimmed, the output for member x has as `key` the
\* entry encrypt stored for x, which is the session key encrypted for x; a
\* member without an entry gets an output without `key`; no output has
\* `keys` or the key of another member; every output names the group, and a
\* decrypt of an output gives the group, not the member, to the delegate as
\* the receiver.
GroupKeyRouting ==
    /\ FannedOut =>
          \A i \in DOMAIN outs :
              LET x    == EnvelopeGetReceiver(Out(i))[1]
                  keys == IF Has(last.pre, "keys") THEN last.pre["keys"] ELSE EmptyMap
              IN  /\ ~Has(Out(i), "keys")
                  /\ EnvelopeGetGroup(Out(i)) = EnvelopeGetReceiver(last.pre)
                  /\ IF x \in DOMAIN keys
                     THEN /\ Has(Out(i), "key")
                          /\ Out(i)["key"] = keys[x]
                          /\ Out(i)["key"] = KeyFor(last.pre, x)
                     ELSE ~Has(Out(i), "key")
    /\ (/\ GroupRoot
        /\ last.op = "decrypt"
        /\ prev.op \in {"split", "trim"}
        /\ ~last.d.raise) =>
          \A i \in Calls("DecryptKey") \cup Calls("DeserializeKey") :
              /\ Log[i].args[3] = EnvelopeGetReceiver(prev.pre)
              /\ Log[i].args[3] # EnvelopeGetReceiver(last.pre)

\* A signed group message whose key could be encrypted for C but not for B
\* is split for B and C: B's output has no key, C's has the key made for C.
GroupKeyRoutingWitness ==
    /\ FannedOut
    /\ last.op = "split"
    /\ prev.op = "sign"
    /\ Len(outs) = 2
    /\ EnvelopeGetReceiver(Out(1)) = Some("B")
    /\ EnvelopeGetReceiver(Out(2)) = Some("C")
    /\ Has(last.pre, "keys")
    /\ DOMAIN last.pre["keys"] = {"C"}
    /\ ~Has(Out(1), "key")
    /\ Out(2)["key"] = KeyFor(last.pre, "C")

\* The output of a trim of a group message is decrypted with the member's key
\* and the group as the receiver.
GroupKeyRoutingDecrypted ==
    /\ GroupRoot
    /\ last.op = "decrypt"
    /\ prev.op = "trim"
    /\ last.outcome = "ok"
    /\ Has(last.pre, "key")
    /\ Calls("DecryptKey") # {}
    /\ \A i \in Calls("DecryptKey") : Log[i].args[3] = EnvelopeGetReceiver(prev.pre)

====
